---- MODULE Spec2Model ----
(***************************************************************************)
(* Model of the concurrent crawl engine of go-web-crawler (crawler.go,     *)
(* the Crawler type with New/addSite/Start/Crawl/Wait).                     *)
(*                                                                         *)
(* Strings are TLA+ strings; an HTML page is modelled as the sequence of   *)
(* the values of its href="..." attributes in document order.              *)
(***************************************************************************)
EXTENDS Integers, Sequences, FiniteSets, Bags, TLC

(***************************************************************************)
(* Bounds                                                                  *)
(***************************************************************************)
\* capacity of the buffered channel 'urls' (100 in the source, scaled down)
MAX_CHAN_URLS == 2

(***************************************************************************)
(* String helpers (package strings / regexp semantics)                     *)
(***************************************************************************)
HasPrefix(s, p) ==
    Len(s) >= Len(p) /\ SubSeq(s, 1, Len(p)) = p

HasSuffix(s, e) ==
    Len(s) >= Len(e) /\ SubSeq(s, Len(s) - Len(e) + 1, Len(s)) = e

CharAt(s, k) == SubSeq(s, k, k)

Drop(s, n) == SubSeq(s, n + 1, Len(s))

\* the character class [-\w\d_/\.] of relativePattern
PathChars ==
    {"a","b","c","d","e","f","g","h","i","j","k","l","m",
     "n","o","p","q","r","s","t","u","v","w","x","y","z",
     "A","B","C","D","E","F","G","H","I","J","K","L","M",
     "N","O","P","Q","R","S","T","U","V","W","X","Y","Z",
     "0","1","2","3","4","5","6","7","8","9",
     "-","_","/","."}

\* \s of the absolute pattern
SpaceChars == {" "}

\* href="(/[-\w\d_/\.]+)" : the attribute value v is captured
RelativeMatch(v) ==
    /\ Len(v) >= 2
    /\ CharAt(v, 1) = "/"
    /\ \A k \in 2..Len(v) : CharAt(v, k) \in PathChars

\* the domain is spliced into the pattern as a regular expression:
\* a "." of the domain matches any character
DomainMatch(s, domain) ==
    /\ Len(s) = Len(domain)
    /\ \A k \in 1..Len(s) :
          CharAt(domain, k) = "." \/ CharAt(s, k) = CharAt(domain, k)

\* ([^\s\/]*\.)? : empty, or characters other than space and "/" ending in "."
SubdomainMatch(s) ==
    \/ s = ""
    \/ /\ CharAt(s, Len(s)) = "."
       /\ \A k \in 1..Len(s) : CharAt(s, k) \notin (SpaceChars \cup {"/"})

\* (\/[^\s]*)* : empty, or "/" followed by non-space characters
PathMatch(s) ==
    \/ s = ""
    \/ /\ CharAt(s, 1) = "/"
       /\ \A k \in 1..Len(s) : CharAt(s, k) \notin SpaceChars

\* href="((http[s]?:\/\/)([^\s\/]*\.)?%s(\/[^\s]*)*)" with %s = domain
AbsoluteMatch(v, domain) ==
    \E scheme \in {"http://", "https://"} :
        /\ HasPrefix(v, scheme)
        /\ LET r == Drop(v, Len(scheme)) IN
           \E k \in 0..Len(r) :
               /\ k + Len(domain) <= Len(r)
               /\ SubdomainMatch(SubSeq(r, 1, k))
               /\ DomainMatch(SubSeq(r, k + 1, k + Len(domain)), domain)
               /\ PathMatch(Drop(r, k + Len(domain)))

FindRelativeLinks(html) == SelectSeq(html, RelativeMatch)

FindAbsoluteLinks(html, domain) ==
    SelectSeq(html, LAMBDA v : AbsoluteMatch(v, domain))

\* children of Crawl: relative links made absolute, then absolute links
Children(html, domain) ==
    LET rel == FindRelativeLinks(html) IN
    [k \in 1..Len(rel) |-> "https://" \o domain \o rel[k]]
        \o FindAbsoluteLinks(html, domain)

(***************************************************************************)
(* The crawled site (the Page Fetcher's world)                             *)
(***************************************************************************)
\* seeds handed to New (main uses "https://monzo.com")
NewSeeds == {"https://monzo.com", "http://monzo.com", "hello"}

\* seeds handed to Init (the ones of the Init tests)
InitSeeds == {"hello", "https://", "https://monzo.com/abcde"}

\* href values of the page served at a URL; unknown URLs serve no page
Page(url) ==
    CASE url = "https://monzo.com" ->
            <<"/a", "/c", "/logo.png", "https://other.org/x",
              "https://monzo.com/a">>
      [] url = "http://monzo.com" -> <<"/c", "https://other.org/x">>
      [] url = "https://monzo.com/a" -> <<"/a", "/c">>
      [] url = "https://monzo.com/c" -> <<"https://other.org/x", "#top">>
      [] OTHER -> <<>>

AllURLs ==
    {"https://monzo.com", "https://monzo.com/a", "https://monzo.com/c",
     "https://monzo.com/logo.png", "https://monzo.com/abcde", "hello",
     "http://monzo.com", "http://monzo.com/c", "https://other.org/x"}

TransportError == [err |-> TRUE, status |-> 0]

Response(code) == [err |-> FALSE, status |-> code]

\* what http.Get can return for a URL: a transport error, or a response
\* with a status code.  A URL without scheme is always a transport error;
\* any page of the site can be down or missing.
FetchOutcomes(url) ==
    CASE ~(HasPrefix(url, "http://") \/ HasPrefix(url, "https://")) ->
            {TransportError}
      [] OTHER -> {Response(200), Response(404), TransportError}

\* whether ioutil.ReadAll of the body can succeed (TRUE) or fail (FALSE)
ReadOutcomes(url) == {TRUE, FALSE}

\* body of a response: the page for 200, empty content otherwise
Body(url, status) == IF status = 200 THEN Page(url) ELSE <<>>

(***************************************************************************)
(* State                                                                   *)
(***************************************************************************)
VARIABLES
    mainpc,       \* position of the caller (main / a test) in New, Start, Wait
    initErr,      \* error returned by Init
    initArg,      \* history: the argument Init was called with
    baseSite,     \* Crawler.baseSite
    domain,       \* Crawler.domain
    ignoreSuffixes, \* Crawler.ignoreSuffixes
    urls,         \* Crawler.urls, the buffered channel
    visited,      \* Crawler.visited, the keys of the sync.Map
    sitemap,      \* Crawler.sitemap, a function from its keys to child lists
    wg,           \* counter of Crawler.wg
    totalCrawls,  \* Crawler.totalCrawls
    tasks,        \* the goroutines running Crawl, a bag of their local states
    fetched,      \* history: number of http.Get calls per URL
    pushed,       \* history: number of sends on the channel per URL
    nAdd,         \* history: number of wg.Add(1) calls
    nDone         \* history: number of wg.Done() calls

vars == <<mainpc, initErr, initArg, baseSite, domain, ignoreSuffixes, urls, visited,
          sitemap, wg, totalCrawls, tasks, fetched, pushed, nAdd, nDone>>

crawlerVars == <<baseSite, domain, ignoreSuffixes>>

\* a goroutine that has just been started by 'go c.Crawl()'
NewTask ==
    [pc |-> "recv", url |-> "", resp |-> [err |-> FALSE, status |-> 0],
     children |-> <<>>, i |-> 0, tmp |-> 0, path |-> "",
     nFetch |-> 0, nRecord |-> 0, nPush |-> 0, nSpawn |-> 0, nDone |-> 0]

\* the local states of the goroutines
Tasks == BagToSet(tasks)

\* goroutine t moves to local state r
Step(t, r) == (tasks (-) SetToBag({t})) (+) SetToBag({r})

\* go c.Crawl()
Go(ts) == ts (+) SetToBag({NewTask})

Init ==
    /\ mainpc = "init"
    /\ initErr = FALSE
    /\ initArg = ""
    /\ baseSite = ""
    /\ domain = ""
    /\ ignoreSuffixes = <<>>
    /\ urls = <<>>
    /\ visited = {}
    /\ sitemap = [u \in {} |-> <<>>]
    /\ wg = 0
    /\ totalCrawls = 0
    /\ tasks = EmptyBag
    /\ fetched = [u \in AllURLs |-> 0]
    /\ pushed = [u \in AllURLs |-> 0]
    /\ nAdd = 0
    /\ nDone = 0

histVars == <<fetched, pushed, nAdd, nDone>>

(***************************************************************************)
(* Shared-state operations                                                 *)
(***************************************************************************)
\* mutant: the site is not registered before it is sent
AddSiteStoreMissing(site) ==
    visited' = visited

\* addSite, line 1: c.visited.Store(site, true)
AddSiteStore(site) ==
    visited' = visited \cup {site}

\* mutant: the send never blocks
AddSiteSendUnbounded(site) ==
    /\ urls' = Append(urls, site)
    /\ pushed' = [pushed EXCEPT ![site] = @ + 1]

\* addSite, line 2: c.urls <- site, blocking while the buffer is full
AddSiteSend(site) ==
    /\ Len(urls) < MAX_CHAN_URLS
    /\ urls' = Append(urls, site)
    /\ pushed' = [pushed EXCEPT ![site] = @ + 1]

\* mutant: the counter is not incremented
AddSiteAddMissing ==
    /\ wg' = wg
    /\ nAdd' = nAdd

\* addSite, line 3: c.wg.Add(1)
AddSiteAdd ==
    /\ wg' = wg + 1
    /\ nAdd' = nAdd + 1

\* c.sitemap.Store(url, children)
SitemapStore(url, children) ==
    sitemap' = [u \in (DOMAIN sitemap) \cup {url} |->
                    IF u = url THEN children ELSE sitemap[u]]

\* mutant: only the first suffix of the list is compared
matchesIgnoreSuffixFirstOnly(url) ==
    ignoreSuffixes # <<>> /\ HasSuffix(url, ignoreSuffixes[1])

matchesIgnoreSuffix(url) ==
    \E k \in 1..Len(ignoreSuffixes) : HasSuffix(url, ignoreSuffixes[k])

(***************************************************************************)
(* The caller: New / Init, Start, Wait                                     *)
(***************************************************************************)
New(site) ==
    /\ mainpc = "init"
    /\ baseSite' = site
    /\ domain' = "monzo.com"
    /\ urls' = <<>>
    /\ ignoreSuffixes' = <<"pdf", "png", "jpeg">>
    /\ mainpc' = "ready"
    /\ UNCHANGED <<initErr, initArg, visited, sitemap, wg, totalCrawls,
                   tasks, histVars>>

\* host part of an absolute URL: what follows the scheme up to the first "/"
Host(site) ==
    LET scheme == IF HasPrefix(site, "https://") THEN "https://"
                  ELSE IF HasPrefix(site, "http://") THEN "http://" ELSE ""
        r == Drop(site, Len(scheme))
        slashes == {k \in 1..Len(r) : CharAt(r, k) = "/"}
        end == IF slashes = {} THEN Len(r)
               ELSE (CHOOSE k \in slashes : \A j \in slashes : k <= j) - 1
    IN  IF scheme = "" THEN "" ELSE SubSeq(r, 1, end)

\* mutant: any non-empty seed is accepted
ValidSeedNonEmpty(site) == site # ""

\* the seed parses as an absolute URL with a non-empty host
ValidSeed(site) == Host(site) # ""

InitCrawler(site) ==
    /\ mainpc = "init"
    /\ initArg' = site
    /\ IF ValidSeed(site)
       THEN /\ initErr' = FALSE
            /\ baseSite' = site
            /\ domain' = Host(site)
            /\ urls' = <<>>
            /\ ignoreSuffixes' = <<"pdf", "png", "jpeg">>
            /\ mainpc' = "ready"
       ELSE /\ initErr' = TRUE
            /\ mainpc' = "failed"
            /\ UNCHANGED <<crawlerVars, urls>>
    /\ UNCHANGED <<visited, sitemap, wg, totalCrawls, tasks, histVars>>

\* Start: addSite(c.baseSite), first statement
StartStore ==
    /\ mainpc = "ready"
    /\ AddSiteStore(baseSite)
    /\ mainpc' = "start_send"
    /\ UNCHANGED <<initErr, initArg, crawlerVars, urls, sitemap, wg,
                   totalCrawls, tasks, histVars>>

StartSend ==
    /\ mainpc = "start_send"
    /\ AddSiteSend(baseSite)
    /\ mainpc' = "start_add"
    /\ UNCHANGED <<initErr, initArg, crawlerVars, visited, sitemap, wg,
                   totalCrawls, tasks, fetched, nAdd, nDone>>

StartAdd ==
    /\ mainpc = "start_add"
    /\ AddSiteAdd
    /\ mainpc' = "start_go"
    /\ UNCHANGED <<initErr, initArg, crawlerVars, urls, visited, sitemap,
                   totalCrawls, tasks, fetched, pushed, nDone>>

\* Start: go c.Crawl()
StartGo ==
    /\ mainpc = "start_go"
    /\ tasks' = Go(tasks)
    /\ mainpc' = "started"
    /\ UNCHANGED <<initErr, initArg, crawlerVars, urls, visited, sitemap, wg,
                   totalCrawls, histVars>>

\* the caller enters Wait: on a zero Crawler, after New, or after Start
WaitCall ==
    /\ mainpc \in {"init", "ready", "started"}
    /\ mainpc' = "waiting"
    /\ UNCHANGED <<initErr, initArg, crawlerVars, urls, visited, sitemap, wg,
                   totalCrawls, tasks, histVars>>

\* mutant: Wait returns without looking at the counter
WaitReturnEarly ==
    /\ mainpc = "waiting"
    /\ mainpc' = "returned"
    /\ UNCHANGED <<initErr, initArg, crawlerVars, urls, visited, sitemap, wg,
                   totalCrawls, tasks, histVars>>

\* mutant: Wait returns only after some increment has been made
WaitReturnNeedsWork ==
    /\ mainpc = "waiting"
    /\ wg = 0 /\ nAdd > 0
    /\ mainpc' = "returned"
    /\ UNCHANGED <<initErr, initArg, crawlerVars, urls, visited, sitemap, wg,
                   totalCrawls, tasks, histVars>>

\* c.wg.Wait() returns when the counter is zero
WaitReturn ==
    /\ mainpc = "waiting"
    /\ wg = 0
    /\ mainpc' = "returned"
    /\ UNCHANGED <<initErr, initArg, crawlerVars, urls, visited, sitemap, wg,
                   totalCrawls, tasks, histVars>>

(***************************************************************************)
(* A crawl task: one goroutine running Crawl                               *)
(***************************************************************************)
\* mutant: a skipped URL is taken out of the Visited Set
ReceiveRetractsSkipped(t) ==
    /\ t.pc = "recv"
    /\ urls # <<>>
    /\ LET u == Head(urls) IN
       /\ urls' = Tail(urls)
       /\ visited' = IF matchesIgnoreSuffix(u) THEN visited \ {u} ELSE visited
       /\ tasks' = Step(t,
             IF matchesIgnoreSuffix(u)
             THEN [t EXCEPT !.url = u, !.pc = "defer", !.path = "skipped"]
             ELSE [t EXCEPT !.url = u, !.pc = "fetch"])
    /\ UNCHANGED <<mainpc, initErr, initArg, crawlerVars, sitemap,
                   wg, totalCrawls, histVars>>

\* url := <-c.urls, then the ignore-suffix test
Receive(t) ==
    /\ t.pc = "recv"
    /\ urls # <<>>
    /\ LET u == Head(urls) IN
       /\ urls' = Tail(urls)
       /\ tasks' = Step(t,
             IF matchesIgnoreSuffix(u)
             THEN [t EXCEPT !.url = u, !.pc = "defer", !.path = "skipped"]
             ELSE [t EXCEPT !.url = u, !.pc = "fetch"])
    /\ UNCHANGED <<mainpc, initErr, initArg, crawlerVars, visited, sitemap,
                   wg, totalCrawls, histVars>>

\* resp, err := http.Get(url); an error returns Http404Error(url)
Fetch(t) ==
    /\ t.pc = "fetch"
    /\ \E o \in FetchOutcomes(t.url) :
          tasks' = Step(t,
             IF o.err
             THEN [t EXCEPT !.resp = o, !.nFetch = @ + 1,
                            !.pc = "defer", !.path = "fetchfail"]
             ELSE [t EXCEPT !.resp = o, !.nFetch = @ + 1, !.pc = "read"])
    /\ fetched' = [fetched EXCEPT ![t.url] = @ + 1]
    /\ UNCHANGED <<mainpc, initErr, initArg, crawlerVars, urls, visited,
                   sitemap, wg, totalCrawls, pushed, nAdd, nDone>>

\* mutant: a page without links is not recorded
ReadAndRecordSkipsEmpty(t) ==
    /\ t.pc = "read"
    /\ \E readOk \in ReadOutcomes(t.url) :
          IF readOk
          THEN LET ch == Children(Body(t.url, t.resp.status), domain) IN
               /\ IF ch = <<>> THEN UNCHANGED sitemap
                  ELSE SitemapStore(t.url, ch)
               /\ tasks' = Step(t,
                     [t EXCEPT !.children = ch, !.i = 1,
                               !.nRecord = @ + (IF ch = <<>> THEN 0 ELSE 1),
                               !.pc = "loop"])
          ELSE /\ tasks' = Step(t,
                     [t EXCEPT !.pc = "defer", !.path = "decodefail"])
               /\ UNCHANGED sitemap
    /\ UNCHANGED <<mainpc, initErr, initArg, crawlerVars, urls, visited, wg,
                   totalCrawls, histVars>>

\* mutant: a body that cannot be read retracts the URL from the Visited Set
ReadAndRecordRetracts(t) ==
    /\ t.pc = "read"
    /\ \E readOk \in ReadOutcomes(t.url) :
          IF readOk
          THEN LET ch == Children(Body(t.url, t.resp.status), domain) IN
               /\ SitemapStore(t.url, ch)
               /\ tasks' = Step(t,
                     [t EXCEPT !.children = ch, !.i = 1, !.nRecord = @ + 1,
                               !.pc = "loop"])
               /\ UNCHANGED visited
          ELSE /\ tasks' = Step(t,
                     [t EXCEPT !.pc = "defer", !.path = "decodefail"])
               /\ visited' = visited \ {t.url}
               /\ UNCHANGED sitemap
    /\ UNCHANGED <<mainpc, initErr, initArg, crawlerVars, urls, wg,
                   totalCrawls, histVars>>

\* ioutil.ReadAll(resp.Body); an error returns InvalidHTMLContent(url),
\* otherwise the links are extracted and c.sitemap.Store(url, children)
ReadAndRecord(t) ==
    /\ t.pc = "read"
    /\ \E readOk \in ReadOutcomes(t.url) :
          IF readOk
          THEN LET ch == Children(Body(t.url, t.resp.status),
                                  domain) IN
               /\ SitemapStore(t.url, ch)
               /\ tasks' = Step(t,
                     [t EXCEPT !.children = ch, !.i = 1, !.nRecord = @ + 1,
                               !.pc = "loop"])
          ELSE /\ tasks' = Step(t,
                     [t EXCEPT !.pc = "defer", !.path = "decodefail"])
               /\ UNCHANGED sitemap
    /\ UNCHANGED <<mainpc, initErr, initArg, crawlerVars, urls, visited, wg,
                   totalCrawls, histVars>>

\* mutant: every link is claimed without looking at the Visited Set
LoopLoadAlwaysClaims(t) ==
    /\ t.pc = "loop"
    /\ tasks' = Step(t,
          IF t.i > Len(t.children) THEN [t EXCEPT !.pc = "count"]
          ELSE [t EXCEPT !.pc = "store"])
    /\ UNCHANGED <<mainpc, initErr, initArg, crawlerVars, urls, visited,
                   sitemap, wg, totalCrawls, histVars>>

\* mutant: the test of 'present' is inverted
LoopLoadInverted(t) ==
    /\ t.pc = "loop"
    /\ tasks' = Step(t,
          IF t.i > Len(t.children) THEN [t EXCEPT !.pc = "count"]
          ELSE IF t.children[t.i] \notin visited THEN [t EXCEPT !.i = @ + 1]
          ELSE [t EXCEPT !.pc = "store"])
    /\ UNCHANGED <<mainpc, initErr, initArg, crawlerVars, urls, visited,
                   sitemap, wg, totalCrawls, histVars>>

\* for _, x := range children { if _, present := c.visited.Load(x); !present
LoopLoad(t) ==
    /\ t.pc = "loop"
    /\ tasks' = Step(t,
          IF t.i > Len(t.children) THEN [t EXCEPT !.pc = "count"]
          ELSE IF t.children[t.i] \in visited THEN [t EXCEPT !.i = @ + 1]
          ELSE [t EXCEPT !.pc = "store"])
    /\ UNCHANGED <<mainpc, initErr, initArg, crawlerVars, urls, visited,
                   sitemap, wg, totalCrawls, histVars>>

\* c.addSite(x), first statement
LoopStore(t) ==
    /\ t.pc = "store"
    /\ AddSiteStore(t.children[t.i])
    /\ tasks' = Step(t, [t EXCEPT !.pc = "send"])
    /\ UNCHANGED <<mainpc, initErr, initArg, crawlerVars, urls, sitemap, wg,
                   totalCrawls, histVars>>

LoopSend(t) ==
    /\ t.pc = "send"
    /\ AddSiteSend(t.children[t.i])
    /\ tasks' = Step(t, [t EXCEPT !.pc = "add", !.nPush = @ + 1])
    /\ UNCHANGED <<mainpc, initErr, initArg, crawlerVars, visited, sitemap,
                   wg, totalCrawls, fetched, nAdd, nDone>>

LoopAdd(t) ==
    /\ t.pc = "add"
    /\ AddSiteAdd
    /\ tasks' = Step(t, [t EXCEPT !.pc = "go"])
    /\ UNCHANGED <<mainpc, initErr, initArg, crawlerVars, urls, visited,
                   sitemap, totalCrawls, fetched, pushed, nDone>>

\* mutant: addSite without the go statement that follows it
LoopGoNoSpawn(t) ==
    /\ t.pc = "go"
    /\ tasks' = Step(t, [t EXCEPT !.pc = "loop", !.i = @ + 1])
    /\ UNCHANGED <<mainpc, initErr, initArg, crawlerVars, urls, visited,
                   sitemap, wg, totalCrawls, histVars>>

\* mutant: two goroutines are started for one addSite
LoopGoSpawnsTwice(t) ==
    /\ t.pc = "go"
    /\ tasks' = Go(Go(Step(t, [t EXCEPT !.pc = "loop", !.i = @ + 1,
                                            !.nSpawn = @ + 2])))
    /\ UNCHANGED <<mainpc, initErr, initArg, crawlerVars, urls, visited,
                   sitemap, wg, totalCrawls, histVars>>

\* go c.Crawl(), then the next child
LoopGo(t) ==
    /\ t.pc = "go"
    /\ tasks' = Go(Step(t, [t EXCEPT !.pc = "loop", !.i = @ + 1,
                                         !.nSpawn = @ + 1]))
    /\ UNCHANGED <<mainpc, initErr, initArg, crawlerVars, urls, visited,
                   sitemap, wg, totalCrawls, histVars>>

\* c.totalCrawls++ is an unsynchronised read ...
CountRead(t) ==
    /\ t.pc = "count"
    /\ tasks' = Step(t, [t EXCEPT !.tmp = totalCrawls, !.pc = "countw"])
    /\ UNCHANGED <<mainpc, initErr, initArg, crawlerVars, urls, visited,
                   sitemap, wg, totalCrawls, histVars>>

\* ... followed by a write; then return nil
CountWrite(t) ==
    /\ t.pc = "countw"
    /\ totalCrawls' = t.tmp + 1
    /\ tasks' = Step(t, [t EXCEPT !.pc = "defer", !.path = "ok"])
    /\ UNCHANGED <<mainpc, initErr, initArg, crawlerVars, urls, visited,
                   sitemap, wg, histVars>>

\* mutant: wg.Done() both deferred and at the end of the function body
DoneTwiceOnSuccess(t) ==
    /\ t.pc = "defer"
    /\ wg' = wg - (IF t.path = "ok" THEN 2 ELSE 1)
    /\ nDone' = nDone + (IF t.path = "ok" THEN 2 ELSE 1)
    /\ tasks' = Step(t, [t EXCEPT !.pc = "exited",
                                  !.nDone = @ + (IF t.path = "ok" THEN 2 ELSE 1)])
    /\ UNCHANGED <<mainpc, initErr, initArg, crawlerVars, urls, visited,
                   sitemap, totalCrawls, fetched, pushed, nAdd>>

\* mutant: wg.Done() at the end of the function body instead of deferred
DoneOnlyOnSuccess(t) ==
    /\ t.pc = "defer"
    /\ IF t.path = "ok"
       THEN /\ wg' = wg - 1
            /\ nDone' = nDone + 1
            /\ tasks' = Step(t, [t EXCEPT !.pc = "exited", !.nDone = @ + 1])
       ELSE /\ tasks' = Step(t, [t EXCEPT !.pc = "exited"])
            /\ UNCHANGED <<wg, nDone>>
    /\ UNCHANGED <<mainpc, initErr, initArg, crawlerVars, urls, visited,
                   sitemap, totalCrawls, fetched, pushed, nAdd>>

\* defer c.wg.Done(): runs when Crawl returns, on every return path
DeferredDone(t) ==
    /\ t.pc = "defer"
    /\ wg' = wg - 1
    /\ nDone' = nDone + 1
    /\ tasks' = Step(t, [t EXCEPT !.pc = "exited", !.nDone = @ + 1])
    /\ UNCHANGED <<mainpc, initErr, initArg, crawlerVars, urls, visited,
                   sitemap, totalCrawls, fetched, pushed, nAdd>>

(***************************************************************************)
(* Specification                                                           *)
(***************************************************************************)
Next ==
    \/ \E site \in NewSeeds : New(site)
    \/ \E site \in InitSeeds : InitCrawler(site)
    \/ StartStore
    \/ StartSend
    \/ StartAdd
    \/ StartGo
    \/ WaitCall
    \/ WaitReturn
    \/ \E t \in Tasks : Receive(t)
    \/ \E t \in Tasks : Fetch(t)
    \/ \E t \in Tasks : ReadAndRecord(t)
    \/ \E t \in Tasks : LoopLoad(t)
    \/ \E t \in Tasks : LoopStore(t)
    \/ \E t \in Tasks : LoopSend(t)
    \/ \E t \in Tasks : LoopAdd(t)
    \/ \E t \in Tasks : LoopGo(t)
    \/ \E t \in Tasks : CountRead(t)
    \/ \E t \in Tasks : CountWrite(t)
    \/ \E t \in Tasks : DeferredDone(t)

Spec == Init /\ [][Next]_vars

\* steps of the caller and steps of the crawl goroutines
CallerNext ==
    \/ \E site \in NewSeeds : New(site)
    \/ \E site \in InitSeeds : InitCrawler(site)
    \/ StartStore \/ StartSend \/ StartAdd \/ StartGo
    \/ WaitCall \/ WaitReturn

TasksNext ==
    \E t \in Tasks :
        \/ Receive(t) \/ Fetch(t) \/ ReadAndRecord(t)
        \/ LoopLoad(t) \/ LoopStore(t) \/ LoopSend(t) \/ LoopAdd(t) \/ LoopGo(t)
        \/ CountRead(t) \/ CountWrite(t) \/ DeferredDone(t)

\* The Go scheduler runs every runnable goroutine, and every Fetcher call
\* returns.  Every behaviour takes finitely many steps, so weak fairness of
\* the caller and of the set of goroutines lets each runnable one proceed.
FairSpec == Spec /\ WF_vars(CallerNext) /\ WF_vars(TasksNext)

TypeOK ==
    /\ Len(urls) <= MAX_CHAN_URLS
    /\ visited \subseteq AllURLs
    /\ DOMAIN sitemap \subseteq AllURLs

(***************************************************************************)
(* Vocabulary of the properties                                            *)
(***************************************************************************)
\* Start has been called and has returned
StartReturned ==
    mainpc = "started" \/ (mainpc \in {"waiting", "returned"} /\ nAdd > 0)

Exited(t) == t.pc = "exited"

\* number of goroutines that have returned from Crawl
ExitedCount ==
    BagCardinality([t \in {x \in Tasks : Exited(x)} |-> tasks[t]])

\* the fetch of task t did not succeed: transport error or status >= 300
FetchFailed(t) ==
    t.nFetch > 0 /\ (t.resp.err \/ t.resp.status >= 300)

\* the URL ends in one of the suffixes pdf, png, jpeg
EndsInIgnoredSuffix(u) ==
    \E e \in {"pdf", "png", "jpeg"} : HasSuffix(u, e)

(***************************************************************************)
(* C1 *)
(***************************************************************************)
\* C1: no URL is fetched more than once in a crawl run, under every
\* interleaving of the crawl tasks.
C1_AtMostOnceFetch ==
    \A u \in AllURLs : fetched[u] <= 1

(***************************************************************************)
(* C2 *)
(***************************************************************************)
\* C2: once Start has returned, whenever the completion counter is zero the
\* channel is empty and every crawl task has finished; in particular this
\* holds when Wait has returned.
C2_ZeroMeansNoWork ==
    /\ (StartReturned /\ wg = 0) =>
            (urls = <<>> /\ \A t \in Tasks : Exited(t))
    /\ (StartReturned /\ mainpc = "returned") =>
            (urls = <<>> /\ \A t \in Tasks : Exited(t))

C2_Witness ==
    /\ StartReturned /\ wg = 0 /\ mainpc = "returned"
    /\ BagCardinality(tasks) >= 4

(***************************************************************************)
(* C3 *)
(***************************************************************************)
\* the same-domain links of the page at u, as absolute URLs
Links(u) ==
    LET ch == Children(Page(u), domain) IN {ch[k] : k \in 1..Len(ch)}

RECURSIVE Closure(_, _, _)
Closure(S, through, n) ==
    IF n = 0 THEN S
    ELSE Closure(S \cup UNION {Links(u) : u \in S \cap through}, through, n - 1)

\* URLs reachable from the seed by following same-domain links
Reachable == Closure({baseSite}, AllURLs, Cardinality(AllURLs))

\* URLs without ignored suffix reachable through pages without ignored suffix
Crawlable ==
    LET plain == {u \in AllURLs : ~EndsInIgnoredSuffix(u)} IN
    Closure({baseSite}, plain, Cardinality(AllURLs)) \cap plain

AnyFetchFailed == \E t \in Tasks : FetchFailed(t)

AnyReadFailed == \E t \in Tasks : t.path = "decodefail"

ExitPaths == {"skipped", "fetchfail", "decodefail", "ok"}

\* C4: a crawl task has called wg.Done exactly once when it has returned
\* from Crawl, whichever of the four return paths it took, and never more
\* than once; the calls made in total are those of the returned tasks.
C4_DoneExactlyOnce ==
    /\ \A t \in Tasks :
          /\ t.nDone <= 1
          /\ Exited(t) => (t.nDone = 1 /\ t.path \in ExitPaths)
          /\ ~Exited(t) => t.nDone = 0
    /\ nDone = ExitedCount

C4_Witness ==
    \A p \in ExitPaths : \E t \in Tasks : Exited(t) /\ t.path = p /\ t.nDone = 1

(***************************************************************************)
(* C5 *)
(***************************************************************************)
\* C5: a task whose fetch failed (transport error or status >= 300) ends as
\* Failed, its URL is no longer in the Visited Set, and when the crawl is
\* over the Sitemap has no entry keyed by that URL.
C5_FailedFetchRetracted ==
    \A t \in Tasks :
        (FetchFailed(t) /\ Exited(t)) =>
            /\ t.path = "fetchfail"
            /\ t.url \notin visited
            /\ mainpc = "returned" => t.url \notin DOMAIN sitemap

(***************************************************************************)
(* C6 *)
(***************************************************************************)
\* the string is a scheme followed by a non-empty host
AbsoluteWithHost(s) ==
    \E scheme \in {"http://", "https://"} :
        /\ HasPrefix(s, scheme)
        /\ Len(s) > Len(scheme)
        /\ CharAt(s, Len(scheme) + 1) # "/"

C7_WaitOnIdleReturns ==
    (mainpc = "waiting" /\ nAdd = 0 /\ visited = {}) => ENABLED WaitReturn

C7_Witness ==
    mainpc = "returned" /\ nAdd = 0 /\ visited = {} /\ baseSite = ""

(***************************************************************************)
(* C8 *)
(***************************************************************************)
\* C8: a caller in Wait stays there while the counter is positive, has
\* returned only when every increment was matched by a decrement, and does
\* return once the counter is zero.
C8_WaitBlocksUntilZero ==
    /\ [][(mainpc = "waiting" /\ wg > 0) => mainpc' = "waiting"]_vars
    /\ [](mainpc = "returned" => nAdd = nDone)
    /\ (mainpc = "waiting" /\ wg = 0) ~> (mainpc = "returned")

C8_Witness ==
    mainpc = "returned" /\ nAdd >= 4 /\ nAdd = nDone

(***************************************************************************)
(* C9 *)
(***************************************************************************)
\* C9: whenever a URL is placed in the channel it is already registered in
\* the Visited Set.
C9_VisitedBeforeQueued ==
    [][\A u \in AllURLs : pushed'[u] > pushed[u] => u \in visited]_vars

C9_Witness ==
    Len(urls) = MAX_CHAN_URLS /\ \A k \in 1..Len(urls) : urls[k] \in visited

(***************************************************************************)
(* C10 *)
(***************************************************************************)
\* C10: a task that received a URL ending in pdf, png or jpeg makes no
\* fetch, writes no Sitemap entry, sends and spawns nothing, goes straight
\* to its return, and has decremented the counter when it has returned.
C10_IgnoredSuffixSkipped ==
    \A t \in Tasks :
        (t.pc # "recv" /\ EndsInIgnoredSuffix(t.url)) =>
            /\ t.nFetch = 0 /\ t.nRecord = 0 /\ t.nPush = 0 /\ t.nSpawn = 0
            /\ t.pc \in {"defer", "exited"}
            /\ t.path = "skipped"
            /\ Exited(t) => t.nDone = 1
            /\ fetched[t.url] = 0
            /\ t.url \notin DOMAIN sitemap

C10_Witness ==
    \E t \in Tasks : EndsInIgnoredSuffix(t.url) /\ Exited(t) /\ t.nDone = 1

(***************************************************************************)
(* C11 *)
(***************************************************************************)
\* the page at u has exactly one relative link and one absolute link to
\* another host
OneRelativeOneForeign(u) ==
    LET h == Page(u) IN
    /\ Len(h) = 2
    /\ RelativeMatch(h[1])
    /\ Host(h[2]) # ""
    /\ Host(h[2]) # Host(u)

\* C11: for a page with one relative link and one absolute link to another
\* host, crawled with the domain filter equal to its host, the Sitemap entry
\* is exactly [baseSite + relative link], and the other-host link is neither
\* recorded nor enqueued.
C11_EntryIsBasePlusRelative ==
    \A t \in Tasks :
        (/\ OneRelativeOneForeign(t.url)
         /\ Host(t.url) = domain
         /\ t.nRecord = 1 /\ t.resp.status = 200) =>
            /\ sitemap[t.url] = <<baseSite \o Page(t.url)[1]>>
            /\ pushed[Page(t.url)[2]] = 0
            /\ Page(t.url)[2] \notin visited

(***************************************************************************)
(* C12 *)
(***************************************************************************)
\* the counter is zero and every goroutine has returned from Crawl
CrawlOver == wg = 0 /\ urls = <<>> /\ \A t \in Tasks : Exited(t)

\* C12: whichever fetches and body reads fail, a started crawl terminates:
\* the counter reaches zero with every task finished, and a caller in Wait
\* returns.
C12_CrawlTerminates ==
    /\ (mainpc = "started") ~> CrawlOver
    /\ (StartReturned /\ mainpc = "waiting") ~> (mainpc = "returned")

C12_Witness ==
    /\ StartReturned /\ mainpc = "returned" /\ CrawlOver
    /\ \E t \in Tasks : t.path = "fetchfail"
    /\ \E t \in Tasks : t.path = "decodefail"
    /\ \E t \in Tasks : t.path = "ok" /\ t.nSpawn >= 2

(***************************************************************************)
(* C13 *)
(***************************************************************************)
\* the children task t has examined so far in its link loop
Examined(t) ==
    {t.children[k] : k \in 1..(IF t.i > Len(t.children) THEN Len(t.children)
                               ELSE t.i)}

\* task t with its current child found absent, about to call addSite
Claiming(t) == [t EXCEPT !.pc = "store"]

\* C13: a task whose current link is in the Visited Set when it is examined
\* does not go on to addSite for it; hence a task sends at most one URL per
\* distinct link of its page and never its own URL (a link listed twice, or
\* a link of a page to itself, is not enqueued again).
C13_VisitedLinkNotEnqueued ==
    /\ [][\A t \in Tasks :
            (/\ t.pc = "loop" /\ t.i <= Len(t.children)
             /\ t.children[t.i] \in visited)
            => CopiesIn(Claiming(t), tasks') <= CopiesIn(Claiming(t), tasks)]_vars
    /\ [](\A t \in Tasks :
            t.nPush <= Cardinality(Examined(t) \ {t.url}))

C13_Witness ==
    /\ \E t \in Tasks :
          /\ t.url = "https://monzo.com" /\ t.i > Len(t.children)
          /\ Len(t.children) = 4 /\ t.children[1] = t.children[4]
          /\ t.nPush = 3
    /\ \E t \in Tasks :
          /\ t.url = "https://monzo.com/a" /\ t.i > Len(t.children)
          /\ Len(t.children) = 2 /\ t.children[1] = t.url
          /\ t.nPush <= 1

(***************************************************************************)
(* C14 *)
(***************************************************************************)
\* number of goroutines satisfying P
CountTasks(P(_)) ==
    BagCardinality([t \in {x \in Tasks : P(x)} |-> tasks[t]])

\* spawned tasks that have not yet received from the channel
WaitingConsumers == CountTasks(LAMBDA x : x.pc = "recv")

\* C14: a URL is sent on the channel only when the tasks spawned and not
\* yet served outnumber the URLs already queued, so that a consumer for the
\* URL exists before the send.
C14_ConsumerBeforePush ==
    [][(\E u \in AllURLs : pushed'[u] > pushed[u])
          => WaitingConsumers >= Len(urls) + 1]_vars

(***************************************************************************)
(* C15 *)
(***************************************************************************)
\* tasks that have received a URL and have not finished
InFlight == CountTasks(LAMBDA x : x.pc \notin {"recv", "exited"})

\* addSite calls that have sent their URL and not yet executed wg.Add(1)
PendingAdds ==
    CountTasks(LAMBDA x : x.pc = "add") + (IF mainpc = "start_add" THEN 1 ELSE 0)

\* C15 as stated: in every state the counter is the number of queued URLs
\* plus the number of tasks in flight.
C15_CounterEqualsOutstanding ==
    wg = Len(urls) + InFlight

\* C15 amended: in every state the counter is the number of queued URLs plus
\* the number of tasks in flight, less the addSite calls that have sent
\* their URL and not yet incremented the counter; it counts the wg.Add calls
\* less the wg.Done calls.
C15_CounterLagsOutstanding ==
    /\ wg = Len(urls) + InFlight - PendingAdds
    /\ wg = nAdd - nDone

C15_Witness ==
    PendingAdds >= 1 /\ InFlight >= 3 /\ urls # <<>> /\ wg >= 3

(***************************************************************************)
(* C16 *)
(***************************************************************************)
\* C16 as stated: the URLs claimed and not completed (queued plus in
\* flight) never exceed the capacity of the channel.
C16_OutstandingWithinCapacity ==
    Len(urls) + InFlight <= MAX_CHAN_URLS

\* C16 amended: the URLs queued never exceed the capacity of the channel
\* (the tasks in flight are not bounded by it).
C16_QueueWithinCapacity ==
    Len(urls) <= MAX_CHAN_URLS

C16_Witness ==
    Len(urls) = MAX_CHAN_URLS /\ Len(urls) + InFlight > MAX_CHAN_URLS

(***************************************************************************)
(* C17 *)
(***************************************************************************)
\* number of c.sitemap.Store calls made with key u
RecordCount(u) == CountTasks(LAMBDA x : x.url = u /\ x.nRecord > 0)

\* C17: every Sitemap key is stored at most once in a crawl: no two tasks
\* record an entry for the same URL, so a stored entry is never overwritten.
C17_RecordedAtMostOnce ==
    \A u \in AllURLs : RecordCount(u) <= 1

(***************************************************************************)
(* C18 *)
(***************************************************************************)
\* C18: a Sitemap key is a URL that some task has received, fetched with
\* success and extracted; a URL that is queued, being fetched, skipped or
\* failed is not a Sitemap key.
C18_KeyOnlyAfterExtraction ==
    \A u \in DOMAIN sitemap :
        /\ \E t \in Tasks :
              t.url = u /\ t.nFetch = 1 /\ ~FetchFailed(t) /\ t.nRecord = 1
        /\ \A k \in 1..Len(urls) : urls[k] # u
        /\ \A t \in Tasks :
              t.url = u => /\ t.pc \notin {"fetch", "read"}
                           /\ t.path \notin {"skipped", "fetchfail", "decodefail"}
                           /\ ~FetchFailed(t)

(***************************************************************************)
(* C19 *)
(***************************************************************************)
\* C19: a task whose body read failed after a fetch without error ends
\* with the content-decoding error; its URL is still in the Visited Set, and
\* the task has written no Sitemap entry and has claimed, sent and spawned
\* nothing.
C19_DecodeFailureIsLocal ==
    \A t \in Tasks :
        t.path = "decodefail" =>
            /\ t.nFetch = 1 /\ ~t.resp.err
            /\ t.pc \in {"defer", "exited"}
            /\ t.url \in visited
            /\ t.nRecord = 0
            /\ t.children = <<>> /\ t.nPush = 0 /\ t.nSpawn = 0

C19_Witness ==
    \E t \in Tasks :
        /\ t.path = "decodefail" /\ Exited(t)
        /\ t.url = "https://monzo.com/a" /\ Page(t.url) # <<>>

(***************************************************************************)
(* C20 *)
(***************************************************************************)
\* C20: a URL of the Visited Set stays in it in the next state, unless the
\* task processing that URL ended with a fetch failure.
C20_VisitedOnlyGrows ==
    [][\A u \in visited :
          \/ u \in visited'
          \/ \E t \in BagToSet(tasks') : t.url = u /\ t.path = "fetchfail"]_vars

C20_Witness ==
    /\ CrawlOver
    /\ Cardinality(visited) >= 4
    /\ \E t \in Tasks : t.path = "skipped" /\ t.url \in visited
    /\ \E t \in Tasks : t.path = "decodefail" /\ t.url \in visited

(***************************************************************************)
(* C21 *)
(***************************************************************************)
\* C21: once Start has returned and the completion counter is back at zero,
\* no step changes the Visited Set, the Sitemap, the channel or the counter:
\* the counter does not rise again and neither map is written.
C21_QuiescentAfterZero ==
    [][(StartReturned /\ wg = 0)
          => /\ visited' = visited
             /\ sitemap' = sitemap
             /\ urls' = urls
             /\ wg' = wg]_vars

\* Wait has returned after a crawl in which several tasks ran and recorded
\* pages: steps were taken after the counter came back to zero
C21_Witness ==
    /\ mainpc = "returned"
    /\ nAdd >= 3
    /\ nDone = nAdd
    /\ wg = 0
    /\ Cardinality(DOMAIN sitemap) >= 2

(***************************************************************************)
(* C22 *)
(***************************************************************************)
\* no href value of the page is a link the crawler follows
NoMatchingLinks(body) ==
    \A k \in 1..Len(body) :
        ~RelativeMatch(body[k]) /\ ~AbsoluteMatch(body[k], domain)

\* task t got a response without error, read it, and the page it read has no
\* matching link
ReadLinklessPage(t) ==
    /\ t.nFetch = 1
    /\ ~t.resp.err
    /\ t.path # "decodefail"
    /\ t.pc \notin {"recv", "fetch", "read"}
    /\ NoMatchingLinks(Body(t.url, t.resp.status))

\* C22: a task that fetched and read a page without matching links has
\* recorded the page with an empty child list, has sent nothing and has
\* started no goroutine, is on its way to the successful return, and has
\* taken the successful return path once it has exited.
C22_LinklessPageRecordedEmpty ==
    \A t \in Tasks :
        ReadLinklessPage(t)
            => /\ t.nRecord = 1
               /\ t.url \in DOMAIN sitemap
               /\ sitemap[t.url] = <<>>
               /\ t.nPush = 0
               /\ t.nSpawn = 0
               /\ t.pc \in {"loop", "count", "countw", "defer", "exited"}
               /\ (t.pc \in {"defer", "exited"} => t.path = "ok")

\* the page /c answered 200 with no link, and its task has completed
C22_Witness ==
    \E t \in Tasks :
        /\ t.url = "https://monzo.com/c"
        /\ t.resp.status = 200
        /\ ReadLinklessPage(t)
        /\ Exited(t)
        /\ t.nDone = 1
        /\ sitemap[t.url] = <<>>

(***************************************************************************)
(* C23 *)
(***************************************************************************)
\* C23: the completion counter is never negative: the wg.Done calls never
\* outnumber the wg.Add(1) calls.
C23_CounterNeverNegative ==
    /\ wg >= 0
    /\ nDone <= nAdd

\* a producer has sent a URL, pushed only that once, and has not yet
\* incremented the counter, while a task spawned by another producer has
\* already received that URL, finished and called wg.Done
C23_Witness ==
    \E p \in Tasks :
        /\ p.pc = "add"
        /\ pushed[p.children[p.i]] = 1
        /\ \E k \in Tasks :
              /\ k.url = p.children[p.i]
              /\ Exited(k)
              /\ k.nDone = 1

(***************************************************************************)
(* C24 *)
(***************************************************************************)
\* callers of addSite blocked in the send on a full channel
BlockedSenders ==
    IF Len(urls) = MAX_CHAN_URLS
    THEN CountTasks(LAMBDA x : x.pc = "send")
             + (IF mainpc = "start_send" THEN 1 ELSE 0)
    ELSE 0

\* goroutines (and the caller inside Start) that can take a step which is
\* neither a send nor a receive
RunningElsewhere ==
    CountTasks(LAMBDA x : x.pc \notin {"send", "recv", "exited"})
        + (IF mainpc \in {"start_add", "start_go"} THEN 1 ELSE 0)

\* C24: the crawl never deadlocks on the channel: whenever the channel is
\* full and a sender is blocked on it, either a spawned task is waiting to
\* receive (and the channel, of capacity at least 1, has a URL for it), or
\* some goroutine is running elsewhere.
C24_NoDeadlockOnQueue ==
    BlockedSenders >= 1
        => \/ WaitingConsumers >= 1 /\ urls # <<>>
           \/ RunningElsewhere >= 1

\* the channel is full, a sender is blocked on it, and nothing else can run
\* but the receive of a waiting task
C24_Witness ==
    /\ Len(urls) = MAX_CHAN_URLS
    /\ BlockedSenders >= 1
    /\ RunningElsewhere = 0
    /\ WaitingConsumers >= 1

(***************************************************************************)
(* C25 *)
(***************************************************************************)
\* copies of u waiting in the channel
Queued(u) == Cardinality({k \in 1..Len(urls) : urls[k] = u})

\* tasks that have received u
Receivers(u) == CountTasks(LAMBDA x : x.pc # "recv" /\ x.url = u)

\* goroutines started so far
Spawned == BagCardinality(tasks)

\* callers that have returned from addSite and not yet executed the go
\* statement that follows it
PendingSpawns ==
    CountTasks(LAMBDA x : x.pc = "go") + (IF mainpc = "start_go" THEN 1 ELSE 0)

\* every push of u is either still queued or was received by one task
EachPushReceivedOnce ==
    \A u \in AllURLs : pushed[u] = Queued(u) + Receivers(u)

\* when the crawl has ended no URL is queued and no task waits to receive
NothingLeftAtEnd ==
    (StartReturned /\ wg = 0) => (urls = <<>> /\ WaitingConsumers = 0)

\* once Start spawns the first task, the crawl reaches a state in which
\* every spawned task has received a URL and the channel is empty
EveryReceiveSucceeds ==
    (mainpc = "start_go") ~>
        (Spawned >= 1 /\ WaitingConsumers = 0 /\ urls = <<>>
            /\ PendingSpawns = 0)

SuccessfulTasks == CountTasks(LAMBDA x : x.path = "ok")

\* C26: when Wait has returned after a crawl, totalCrawls is the number of
\* tasks that reached the successful end of Crawl.
C26_TotalCrawlsCountsSuccesses ==
    (StartReturned /\ mainpc = "returned") => totalCrawls = SuccessfulTasks

====
